---------------------------- MODULE Spec2Model ----------------------------
(***************************************************************************)
(* A model of the slot machine core: the symbol resolver                   *)
(* (src/src/game/symbol.rs), the payout function (src/src/game/payout.rs)  *)
(* and the game state machine (src/src/game/mod.rs).                       *)
(*                                                                         *)
(* The program's integers are u32.  The model checker's integers are       *)
(* signed 32-bit, so a u32 is kept as its two 16-bit halves <<hi, lo>>,    *)
(* value hi * 2^16 + lo, and the arithmetic is done on the halves, with    *)
(* the carry out of the high half being the u32 overflow.                  *)
(***************************************************************************)
EXTENDS Integers, Sequences, FiniteSets, TLC

VARIABLES
    profile,    \* the build: "debug" (overflow checks on) or "release" (wrapping)
    status,     \* "none": no Game yet; "ready": a Game exists; "panicked": the process panicked
    credits,    \* Game.credits
    bet,        \* Game.bet: [size, min, max]
    win,        \* Game.win
    stops,      \* Game.stops
    call,       \* the last call made by the caller, with its arguments
    ret,        \* what that call returned: [tag |-> "Ok" | "Err" | "Panic" | "None", val |-> ...]
    draws,      \* the results of the Symbol::random calls that call made, in order
    steps       \* number of calls made on the Game so far

vars == <<profile, status, credits, bet, win, stops, call, ret, draws, steps>>

---------------------------------------------------------------------------
(* Bounds of the model.                                                    *)

\* Small amounts 0..MaxAmount are offered as credits and bet values.
MaxAmount == 2
\* The uniform sampler of a Game's reels produces the numbers 0..MaxSample.
MaxSample == 73
\* Calls made on a Game after its construction.
MaxOps == 2
\* from_number is applied to 0..MaxNumber.
MaxNumber == 300
\* payout is applied to sequences of up to MaxLen symbols.
MaxLen == 4
\* Spins made after the construction of the documentation example's Game.
MaxSpins == 1

\* Commands given to the command-line program in one run
MaxCmds == 6

---------------------------------------------------------------------------
(* u32                                                                     *)

Limb == 65536

U32 == (0 .. Limb - 1) \X (0 .. Limb - 1)

FromNat(n) == <<n \div Limb, n % Limb>>

U32Max == <<Limb - 1, Limb - 1>>

Zero == <<0, 0>>

\* a < b
Lt(a, b) == a[1] < b[1] \/ (a[1] = b[1] /\ a[2] < b[2])

\* a <= b
Le(a, b) == ~Lt(b, a)

\* a - b: [val |-> the difference modulo 2^32, over |-> whether it borrowed]
Sub(a, b) ==
    LET lo == a[2] - b[2]
        borrow == IF lo < 0 THEN 1 ELSE 0
        hi == a[1] - b[1] - borrow
    IN  [val |-> <<hi % Limb, lo % Limb>>, over |-> hi < 0]

\* a + b: [val |-> the sum modulo 2^32, over |-> whether it carried]
Add(a, b) ==
    LET lo == a[2] + b[2]
        hi == a[1] + b[1] + (lo \div Limb)
    IN  [val |-> <<hi % Limb, lo % Limb>>, over |-> hi >= Limb]

\* a * b where a fits the low half and is below 2^15 (a payout multiplier):
\* [val |-> the product modulo 2^32, over |-> whether it exceeded 2^32 - 1]
Mul(a, b) ==
    LET lo == a[2] * b[2]
        hi == a[2] * b[1] + (lo \div Limb)
    IN  [val |-> <<hi % Limb, lo % Limb>>, over |-> hi >= Limb]

---------------------------------------------------------------------------
(* Symbol: src/src/game/symbol.rs                                          *)

Symbol == {"Blank", "Cherry", "Bar", "DoubleBar", "TripleBar", "Seven", "Jackpot"}

\* RANGE: 0..=127
RANGE == 0 .. 127

Ok(v) == [tag |-> "Ok", val |-> v]

Err(v) == [tag |-> "Err", val |-> v]

Panic(v) == [tag |-> "Panic", val |-> v]

OutOfRange(n) == [number |-> n]

\* from_number with the Blank arm one too wide (0..=73)
from_number_wide_blank(number) ==
    IF number >= 0 /\ number <= 73 THEN Ok("Blank")
    ELSE IF number >= 74 /\ number <= 77 THEN Ok("Cherry")
    ELSE IF number >= 78 /\ number <= 93 THEN Ok("Bar")
    ELSE IF number >= 94 /\ number <= 106 THEN Ok("DoubleBar")
    ELSE IF number >= 107 /\ number <= 117 THEN Ok("TripleBar")
    ELSE IF number >= 118 /\ number <= 125 THEN Ok("Seven")
    ELSE IF number >= 126 /\ number <= 127 THEN Ok("Jackpot")
    ELSE Err(OutOfRange(number))

\* from_number with an open last arm (126..), which clamps to Jackpot
from_number_clamped(number) ==
    IF number >= 0 /\ number <= 72 THEN Ok("Blank")
    ELSE IF number >= 73 /\ number <= 77 THEN Ok("Cherry")
    ELSE IF number >= 78 /\ number <= 93 THEN Ok("Bar")
    ELSE IF number >= 94 /\ number <= 106 THEN Ok("DoubleBar")
    ELSE IF number >= 107 /\ number <= 117 THEN Ok("TripleBar")
    ELSE IF number >= 118 /\ number <= 125 THEN Ok("Seven")
    ELSE Ok("Jackpot")

\* from_number with the Jackpot arm one too short (126..=126)
from_number_short_jackpot(number) ==
    IF number >= 0 /\ number <= 72 THEN Ok("Blank")
    ELSE IF number >= 73 /\ number <= 77 THEN Ok("Cherry")
    ELSE IF number >= 78 /\ number <= 93 THEN Ok("Bar")
    ELSE IF number >= 94 /\ number <= 106 THEN Ok("DoubleBar")
    ELSE IF number >= 107 /\ number <= 117 THEN Ok("TripleBar")
    ELSE IF number >= 118 /\ number <= 125 THEN Ok("Seven")
    ELSE IF number >= 126 /\ number <= 126 THEN Ok("Jackpot")
    ELSE Err(OutOfRange(number))

\* Symbol::from_number: the match on number, arm by arm
from_number(number) ==
    IF number >= 0 /\ number <= 72 THEN Ok("Blank")
    ELSE IF number >= 73 /\ number <= 77 THEN Ok("Cherry")
    ELSE IF number >= 78 /\ number <= 93 THEN Ok("Bar")
    ELSE IF number >= 94 /\ number <= 106 THEN Ok("DoubleBar")
    ELSE IF number >= 107 /\ number <= 117 THEN Ok("TripleBar")
    ELSE IF number >= 118 /\ number <= 125 THEN Ok("Seven")
    ELSE IF number >= 126 /\ number <= 127 THEN Ok("Jackpot")
    ELSE Err(OutOfRange(number))

\* Symbol::random: the results from_number gives on the numbers the uniform
\* sampler over RANGE produces (here those up to MaxSample); the unwrap is
\* made where the result is used.
random == {from_number(number) : number \in {n \in RANGE : n <= MaxSample}}

\* Result::unwrap
unwrap(r) == IF r.tag = "Ok" THEN Ok(r.val) ELSE Panic("unwrap")

\* Symbol::random with the whole of RANGE sampled: the results of from_number
random_in_range == {from_number(number) : number \in RANGE}

\* Display for Symbol: the variant's Debug name, as a sequence of characters
to_string(x) ==
    CASE x = "Blank" -> <<"B", "l", "a", "n", "k">>
      [] x = "Cherry" -> <<"C", "h", "e", "r", "r", "y">>
      [] x = "Bar" -> <<"B", "a", "r">>
      [] x = "DoubleBar" -> <<"D", "o", "u", "b", "l", "e", "B", "a", "r">>
      [] x = "TripleBar" -> <<"T", "r", "i", "p", "l", "e", "B", "a", "r">>
      [] x = "Seven" -> <<"S", "e", "v", "e", "n">>
      [] x = "Jackpot" -> <<"J", "a", "c", "k", "p", "o", "t">>

\* str::contains: pat occurs in s as a contiguous substring
contains(s, pat) ==
    \E i \in 1 .. (Len(s) - Len(pat) + 1) : SubSeq(s, i, i + Len(pat) - 1) = pat

---------------------------------------------------------------------------
(* payout: src/src/game/payout.rs                                          *)

NUM_REELS == 3

\* is_all that stops one element early
is_all_short(vec, expected) == \A i \in 1 .. Len(vec) - 1 : vec[i] = expected

\* is_all: vec.iter().all(|x| x == &expected)
is_all(vec, expected) == \A i \in 1 .. Len(vec) : vec[i] = expected

\* symbols.iter().filter(|x| x == &&Cherry).count()
CherryCount(symbols) == Cardinality({i \in 1 .. Len(symbols) : symbols[i] = "Cherry"})

\* symbols.iter().map(|x| x.to_string()).filter(|x| x.contains("Bar")).count()
BarCount(symbols) ==
    Cardinality({i \in 1 .. Len(symbols) : contains(to_string(symbols[i]), <<"B", "a", "r">>)})

\* payout without the length assertion
payout_unasserted(symbols) ==
    IF is_all(symbols, "Jackpot") THEN Ok(1666)
    ELSE IF is_all(symbols, "Seven") THEN Ok(300)
    ELSE IF is_all(symbols, "TripleBar") THEN Ok(100)
    ELSE IF is_all(symbols, "DoubleBar") THEN Ok(50)
    ELSE IF is_all(symbols, "Bar") THEN Ok(25)
    ELSE IF is_all(symbols, "Cherry") \/ BarCount(symbols) = 3 THEN Ok(12)
    ELSE IF CherryCount(symbols) = 2 THEN Ok(6)
    ELSE IF CherryCount(symbols) = 1 THEN Ok(3)
    ELSE Ok(0)

\* payout with the Cherry counts tested before the three-of-a-kind rule for
\* Cherry and the mixed-Bar rule
payout_reordered(symbols) ==
    IF Len(symbols) # NUM_REELS THEN Panic("length")
    ELSE IF is_all(symbols, "Jackpot") THEN Ok(1666)
    ELSE IF is_all(symbols, "Seven") THEN Ok(300)
    ELSE IF is_all(symbols, "TripleBar") THEN Ok(100)
    ELSE IF is_all(symbols, "DoubleBar") THEN Ok(50)
    ELSE IF is_all(symbols, "Bar") THEN Ok(25)
    ELSE IF CherryCount(symbols) = 2 THEN Ok(6)
    ELSE IF CherryCount(symbols) = 1 THEN Ok(3)
    ELSE IF is_all(symbols, "Cherry") THEN Ok(12)
    ELSE Ok(0)

\* payout: the length assertion, then the if / else-if chain in its order
payout(symbols) ==
    IF Len(symbols) # NUM_REELS THEN Panic("length")
    ELSE IF is_all(symbols, "Jackpot") THEN Ok(1666)
    ELSE IF is_all(symbols, "Seven") THEN Ok(300)
    ELSE IF is_all(symbols, "TripleBar") THEN Ok(100)
    ELSE IF is_all(symbols, "DoubleBar") THEN Ok(50)
    ELSE IF is_all(symbols, "Bar") THEN Ok(25)
    ELSE IF is_all(symbols, "Cherry") \/ BarCount(symbols) = 3 THEN Ok(12)
    ELSE IF CherryCount(symbols) = 2 THEN Ok(6)
    ELSE IF CherryCount(symbols) = 1 THEN Ok(3)
    ELSE Ok(0)

---------------------------------------------------------------------------
(* Bet and Game: src/src/game/mod.rs                                       *)

\* is_valid without the test bet <= max
is_valid_no_max(size, min, max) ==
    IF Le(min, size) /\ Le(min, max) THEN TRUE ELSE FALSE

\* Bet::is_valid
is_valid(size, min, max) ==
    IF Le(min, size) /\ Le(size, max) /\ Le(min, max) THEN TRUE ELSE FALSE

\* Bet::new: the assertion, then the struct
BetNew(size, min, max) ==
    IF ~is_valid(size, min, max) THEN Panic("Invalid bet!")
    ELSE Ok([size |-> size, min |-> min, max |-> max])

\* set_size without the assignment
set_size_unassigned(b, size) ==
    IF ~is_valid(size, b.min, b.max) THEN [bet |-> b, ret |-> Panic("Invalid bet!")]
    ELSE [bet |-> b, ret |-> Ok("unit")]

\* Bet::set_size on Bet b: the assertion, then the assignment
set_size(b, size) ==
    IF ~is_valid(size, b.min, b.max) THEN [bet |-> b, ret |-> Panic("Invalid bet!")]
    ELSE [bet |-> [b EXCEPT !.size = size], ret |-> Ok("unit")]

\* A Game value
GameOf(c, b, w, s) == [credits |-> c, bet |-> b, win |-> w, stops |-> s]

\* Whether every draw of Symbol::random unwrapped
Unwrapped(rnd) == \A i \in 1 .. Len(rnd) : rnd[i].tag = "Ok"

\* The symbols drawn, the last one left out
Drawn_short(rnd) == [i \in 1 .. Len(rnd) - 1 |-> rnd[i].val]

\* The symbols drawn
Drawn(rnd) == [i \in 1 .. Len(rnd) |-> rnd[i].val]

\* Game::new, given the results of its three draws
GameNew(c, b, rnd) ==
    IF ~Unwrapped(rnd) THEN Panic("unwrap")
    ELSE Ok(GameOf(c, b, Zero, Drawn(rnd)))

\* Game::set_bet on Game g
set_bet(g, b) == [g |-> [g EXCEPT !.bet = b], ret |-> Ok("unit"), used |-> <<>>]

\* Game::set_bet_size on Game g
set_bet_size(g, bet_size) ==
    LET r == set_size(g.bet, bet_size)
    IN  [g |-> [g EXCEPT !.bet = r.bet], ret |-> r.ret, used |-> <<>>]

\* Game::bet_size
bet_size(g) == g.bet.size

\* Game::credits
get_credits(g) == g.credits

\* Game::win
get_win(g) == g.win

\* Game::symbols: a clone of the stops
get_symbols(g) == g.stops

\* Whether an arithmetic overflow panics: overflow checks are on in a debug
\* build and off (the result wraps) in a release build
Checked(prof) == prof = "debug"

\* The balance check made against the minimum bet
LowBalance_min(g) == Lt(g.credits, g.bet.min)

\* The balance check with its operands exchanged
LowBalance_reversed(g) == Lt(bet_size(g), g.credits)

\* The balance check of Game::spin
LowBalance(g) == Lt(g.credits, bet_size(g))

\* Game::spin on Game g, statement by statement, given the results its calls
\* of Symbol::random would have; used: the calls it made.  A panic leaves the
\* assignments made before it.
spin(g, rnd, prof) ==
    IF LowBalance(g) THEN [g |-> g, ret |-> Err("LowBalance"), used |-> <<>>]
    ELSE IF ~Unwrapped(rnd) THEN [g |-> g, ret |-> Panic("unwrap"), used |-> rnd]
    ELSE
      LET g1 == [g EXCEPT !.stops = Drawn(rnd)]
          d == Sub(g1.credits, bet_size(g1))
      IN  IF d.over /\ Checked(prof)
          THEN [g |-> g1, ret |-> Panic("overflow"), used |-> rnd]
          ELSE
            LET g2 == [g1 EXCEPT !.credits = d.val]
                p == payout(g2.stops)
            IN  IF p.tag = "Panic" THEN [g |-> g2, ret |-> p, used |-> rnd]
                ELSE
                  LET m == Mul(FromNat(p.val), bet_size(g2))
                  IN  IF m.over /\ Checked(prof)
                      THEN [g |-> g2, ret |-> Panic("overflow"), used |-> rnd]
                      ELSE
                        LET g3 == [g2 EXCEPT !.win = m.val]
                            s == Add(g3.credits, g3.win)
                        IN  IF s.over /\ Checked(prof)
                            THEN [g |-> g3, ret |-> Panic("overflow"), used |-> rnd]
                            ELSE [g |-> [g3 EXCEPT !.credits = s.val],
                                  ret |-> Ok("unit"), used |-> rnd]

---------------------------------------------------------------------------
(* The state machine: a caller that constructs a Game and then calls its   *)
(* methods one at a time.                                                  *)

\* The amounts the caller passes: the small ones and the largest u32
Amounts == {FromNat(n) : n \in 0 .. MaxAmount} \cup {U32Max}

\* The Game held by the state
Game == GameOf(credits, bet, win, stops)

NoCall == [op |-> "none", args |-> <<>>]

NoRet == [tag |-> "None", val |-> "none"]

\* The variables after a method on the Game left it as r.g, returned r.ret and
\* made the draws r.used
Returned(r) ==
    /\ credits' = r.g.credits
    /\ bet' = r.g.bet
    /\ win' = r.g.win
    /\ stops' = r.g.stops
    /\ ret' = r.ret
    /\ draws' = r.used
    /\ status' = IF r.ret.tag = "Panic" THEN "panicked" ELSE "ready"
    /\ steps' = steps + 1
    /\ UNCHANGED profile

Init ==
    /\ profile \in {"debug", "release"}
    /\ status = "none"
    /\ credits = Zero
    /\ bet = [size |-> Zero, min |-> Zero, max |-> Zero]
    /\ win = Zero
    /\ stops = <<>>
    /\ call = NoCall
    /\ ret = NoRet
    /\ draws = <<>>
    /\ steps = 0

\* let game = Game::new(c, Bet::new(size, min, max))
NewGame ==
    /\ status = "none"
    /\ \E c \in Amounts, size \in Amounts, min \in Amounts, max \in Amounts :
         LET b == BetNew(size, min, max)
         IN  /\ call' = [op |-> "new", args |-> <<c, size, min, max>>]
             /\ IF b.tag = "Panic"
                THEN /\ status' = "panicked"
                     /\ ret' = b
                     /\ draws' = <<>>
                     /\ UNCHANGED <<credits, bet, win, stops>>
                ELSE \E d1 \in random, d2 \in random, d3 \in random :
                       LET r == GameNew(c, b.val, <<d1, d2, d3>>)
                       IN  /\ draws' = <<d1, d2, d3>>
                           /\ IF r.tag = "Panic"
                              THEN /\ status' = "panicked"
                                   /\ ret' = r
                                   /\ UNCHANGED <<credits, bet, win, stops>>
                              ELSE /\ status' = "ready"
                                   /\ ret' = Ok("Game")
                                   /\ credits' = r.val.credits
                                   /\ bet' = r.val.bet
                                   /\ win' = r.val.win
                                   /\ stops' = r.val.stops
    /\ UNCHANGED <<profile, steps>>

\* game.set_bet_size(bet_size)
SetBetSize ==
    /\ status = "ready"
    /\ steps < MaxOps
    /\ \E n \in Amounts :
         /\ call' = [op |-> "set_bet_size", args |-> <<n>>]
         /\ Returned(set_bet_size(Game, n))

\* game.set_bet(Bet::new(size, min, max))
SetBet ==
    /\ status = "ready"
    /\ steps < MaxOps
    /\ \E size \in Amounts, min \in Amounts, max \in Amounts :
         LET b == BetNew(size, min, max)
         IN  /\ call' = [op |-> "set_bet", args |-> <<size, min, max>>]
             /\ IF b.tag = "Panic"
                THEN Returned([g |-> Game, ret |-> b, used |-> <<>>])
                ELSE Returned(set_bet(Game, b.val))

\* game.spin()
Spin ==
    /\ status = "ready"
    /\ steps < MaxOps
    /\ call' = [op |-> "spin", args |-> <<>>]
    /\ \E d1 \in random, d2 \in random, d3 \in random :
         Returned(spin(Game, <<d1, d2, d3>>, profile))

Next == NewGame \/ SetBetSize \/ SetBet \/ Spin

Spec == Init /\ [][Next]_vars

---------------------------------------------------------------------------
(* The caller of Spec, who also reads the Game through its accessors.      *)

Accessors == {"credits", "bet_size", "win", "symbols"}

\* What accessor acc returns on Game g
Access(acc, g) ==
    CASE acc = "credits" -> get_credits(g)
      [] acc = "bet_size" -> bet_size(g)
      [] acc = "win" -> get_win(g)
      [] acc = "symbols" -> get_symbols(g)

\* game.credits(), game.bet_size(), game.win(), game.symbols()
Read ==
    /\ status = "ready"
    /\ steps < MaxOps
    /\ \E acc \in Accessors :
         /\ call' = [op |-> acc, args |-> <<>>]
         /\ Returned([g |-> Game, ret |-> Ok(Access(acc, Game)), used |-> <<>>])

ApiNext == NewGame \/ SetBetSize \/ SetBet \/ Spin \/ Read

ApiSpec == Init /\ [][ApiNext]_vars


---------------------------------------------------------------------------
(* The pure functions, each run being one call by a caller on arguments of *)
(* its choice.                                                             *)

\* The sequences of at most MaxLen symbols
SymbolSeqs == UNION {[1 .. k -> Symbol] : k \in 0 .. MaxLen}

\* Symbol::from_number(number)
CallFromNumber ==
    /\ call = NoCall
    /\ \E number \in 0 .. MaxNumber :
         /\ call' = [op |-> "from_number", args |-> <<number>>]
         /\ ret' = from_number(number)
    /\ UNCHANGED <<profile, status, credits, bet, win, stops, draws, steps>>

\* payout(&symbols)
CallPayout ==
    /\ call = NoCall
    /\ \E symbols \in SymbolSeqs :
         /\ call' = [op |-> "payout", args |-> <<symbols>>]
         /\ ret' = payout(symbols)
    /\ UNCHANGED <<profile, status, credits, bet, win, stops, draws, steps>>

FnNext == CallFromNumber \/ CallPayout

FnSpec == Init /\ [][FnNext]_vars

---------------------------------------------------------------------------
(* A caller of the library: it applies one of the pure functions once, or  *)
(* runs the documentation example of Game::spin, where the reels are drawn *)
(* from the whole of RANGE.                                                *)

\* Symbol::random(), number being what the sampler produced
CallRandom ==
    /\ call = NoCall
    /\ \E number \in RANGE :
         /\ call' = [op |-> "random", args |-> <<number>>]
         /\ draws' = <<from_number(number)>>
         /\ ret' = unwrap(from_number(number))
    /\ UNCHANGED <<profile, status, credits, bet, win, stops, steps>>

\* let mut game = Game::new(1000, Bet::new(1, 1, 100))
ExampleNew ==
    /\ status = "none"
    /\ call = NoCall
    /\ LET b == BetNew(FromNat(1), FromNat(1), FromNat(100))
       IN  /\ call' = [op |-> "new",
                       args |-> <<FromNat(1000), FromNat(1), FromNat(1), FromNat(100)>>]
           /\ IF b.tag = "Panic"
              THEN /\ status' = "panicked"
                   /\ ret' = b
                   /\ draws' = <<>>
                   /\ UNCHANGED <<credits, bet, win, stops>>
              ELSE \E d1 \in random_in_range, d2 \in random_in_range, d3 \in random_in_range :
                     LET r == GameNew(FromNat(1000), b.val, <<d1, d2, d3>>)
                     IN  /\ draws' = <<d1, d2, d3>>
                         /\ IF r.tag = "Panic"
                            THEN /\ status' = "panicked"
                                 /\ ret' = r
                                 /\ UNCHANGED <<credits, bet, win, stops>>
                            ELSE /\ status' = "ready"
                                 /\ ret' = Ok("Game")
                                 /\ credits' = r.val.credits
                                 /\ bet' = r.val.bet
                                 /\ win' = r.val.win
                                 /\ stops' = r.val.stops
    /\ UNCHANGED <<profile, steps>>

\* game.spin().unwrap()
ExampleSpin ==
    /\ status = "ready"
    /\ steps < MaxSpins
    /\ call' = [op |-> "spin", args |-> <<>>]
    /\ \E d1 \in random_in_range, d2 \in random_in_range, d3 \in random_in_range :
         Returned(spin(Game, <<d1, d2, d3>>, profile))

LibNext == CallFromNumber \/ CallPayout \/ CallRandom \/ ExampleNew \/ ExampleSpin

LibSpec == Init /\ [][LibNext]_vars

---------------------------------------------------------------------------
(* The command-line program, driven through BET PLUS and BET MINUS.     *)

\* bet_plus whose step from 3 skips 5
bet_plus_skip(g) ==
    LET size == bet_size(g)
        next == CASE size = FromNat(1) -> Ok(FromNat(2))
                  [] size = FromNat(2) -> Ok(FromNat(3))
                  [] size = FromNat(3) -> Ok(FromNat(10))
                  [] size = FromNat(5) -> Ok(FromNat(10))
                  [] size = FromNat(10) -> Err("Max bet size!")
                  [] OTHER -> Err("Invalid bet size!")
    IN  IF next.tag = "Err" THEN [g |-> g, ret |-> next, used |-> <<>>]
        ELSE LET r == set_bet_size(g, next.val)
             IN  IF r.ret.tag = "Panic" THEN r
                 ELSE [g |-> r.g, ret |-> Ok(next.val), used |-> <<>>]

\* bet_plus: match game.bet_size(), then game.set_bet_size(bet_size)
bet_plus(g) ==
    LET size == bet_size(g)
        next == CASE size = FromNat(1) -> Ok(FromNat(2))
                  [] size = FromNat(2) -> Ok(FromNat(3))
                  [] size = FromNat(3) -> Ok(FromNat(5))
                  [] size = FromNat(5) -> Ok(FromNat(10))
                  [] size = FromNat(10) -> Err("Max bet size!")
                  [] OTHER -> Err("Invalid bet size!")
    IN  IF next.tag = "Err" THEN [g |-> g, ret |-> next, used |-> <<>>]
        ELSE LET r == set_bet_size(g, next.val)
             IN  IF r.ret.tag = "Panic" THEN r
                 ELSE [g |-> r.g, ret |-> Ok(next.val), used |-> <<>>]

\* bet_minus: match game.bet_size(), then game.set_bet_size(bet_size)
bet_minus(g) ==
    LET size == bet_size(g)
        next == CASE size = FromNat(10) -> Ok(FromNat(5))
                  [] size = FromNat(5) -> Ok(FromNat(3))
                  [] size = FromNat(3) -> Ok(FromNat(2))
                  [] size = FromNat(2) -> Ok(FromNat(1))
                  [] size = FromNat(1) -> Err("Min bet size!")
                  [] OTHER -> Err("Invalid bet size!")
    IN  IF next.tag = "Err" THEN [g |-> g, ret |-> next, used |-> <<>>]
        ELSE LET r == set_bet_size(g, next.val)
             IN  IF r.ret.tag = "Panic" THEN r
                 ELSE [g |-> r.g, ret |-> Ok(next.val), used |-> <<>>]

\* let bet = Bet::new(bet, min_bet, max_bet); let mut game = Game::new(balance, bet)
MainNew ==
    /\ status = "none"
    /\ LET b == BetNew(FromNat(1), FromNat(1), FromNat(100))
       IN  /\ call' = [op |-> "new",
                       args |-> <<FromNat(1000), FromNat(1), FromNat(1), FromNat(100)>>]
           /\ IF b.tag = "Panic"
              THEN /\ status' = "panicked"
                   /\ ret' = b
                   /\ draws' = <<>>
                   /\ UNCHANGED <<credits, bet, win, stops>>
              ELSE \E d1 \in random, d2 \in random, d3 \in random :
                     LET r == GameNew(FromNat(1000), b.val, <<d1, d2, d3>>)
                     IN  /\ draws' = <<d1, d2, d3>>
                         /\ IF r.tag = "Panic"
                            THEN /\ status' = "panicked"
                                 /\ ret' = r
                                 /\ UNCHANGED <<credits, bet, win, stops>>
                            ELSE /\ status' = "ready"
                                 /\ ret' = Ok("Game")
                                 /\ credits' = r.val.credits
                                 /\ bet' = r.val.bet
                                 /\ win' = r.val.win
                                 /\ stops' = r.val.stops
    /\ UNCHANGED <<profile, steps>>

\* "BET PLUS" => bet_plus(&mut game)
BetPlus ==
    /\ status = "ready"
    /\ steps < MaxCmds
    /\ call' = [op |-> "bet_plus", args |-> <<>>]
    /\ Returned(bet_plus(Game))

\* "BET MINUS" => bet_minus(&mut game)
BetMinus ==
    /\ status = "ready"
    /\ steps < MaxCmds
    /\ call' = [op |-> "bet_minus", args |-> <<>>]
    /\ Returned(bet_minus(Game))

MainNext == MainNew \/ BetPlus \/ BetMinus

MainSpec == Init /\ [][MainNext]_vars


---------------------------------------------------------------------------
(* The claims.                                                             *)

InRange(n, b) == Le(b.min, n) /\ Le(n, b.max)

\* C1: in every state in which a Game exists, after its construction and
\* after any set_bet_size, set_bet and spin, its bet has min <= size <= max.
C1_BetWithinBounds ==
    status # "none" => Le(bet.min, bet.size) /\ Le(bet.size, bet.max)

\* A Game two calls old whose last call, a set_bet_size, gave the bet a size
\* strictly between its bounds.
C1_Witness ==
    /\ status = "ready"
    /\ steps = 2
    /\ call.op = "set_bet_size"
    /\ ret.tag = "Ok"
    /\ Lt(bet.min, bet.size)
    /\ Lt(bet.size, bet.max)

\* C2, as claimed: construction succeeds exactly when size >= min, size <= max
\* and min <= max, giving a Game with the credits passed and win 0, and
\* otherwise returns the error value InvalidBet without a panic.
C2_ConstructionReturnsInvalidBet ==
    call.op = "new" =>
        IF Le(call.args[3], call.args[2]) /\ Le(call.args[2], call.args[4])
             /\ Le(call.args[3], call.args[4])
        THEN status = "ready" /\ ret.tag = "Ok" /\ credits = call.args[1] /\ win = Zero
        ELSE status # "panicked" /\ ret.tag = "Err" /\ ret.val = "InvalidBet"

\* C3, as claimed: set_bet_size(n) with n < min or n > max returns the error
\* value InvalidBet, does not panic, and leaves the Game as it was.
C3_SetBetSizeReturnsInvalidBet ==
    [][(call'.op = "set_bet_size" /\ steps' = steps + 1 /\ ~InRange(call'.args[1], bet))
         => /\ ret'.tag = "Err"
            /\ ret'.val = "InvalidBet"
            /\ status' = "ready"
            /\ UNCHANGED <<credits, bet, win, stops>>]_vars

\* C4: set_bet_size(n) with min <= n <= max succeeds, bet_size() is then n,
\* and bet min, bet max, credits, win and the symbols are as before.
C4_SetBetSizeInRange ==
    [][(call'.op = "set_bet_size" /\ steps' = steps + 1 /\ InRange(call'.args[1], bet))
         => /\ ret'.tag = "Ok"
            /\ status' = "ready"
            /\ bet'.size = call'.args[1]
            /\ bet'.min = bet.min
            /\ bet'.max = bet.max
            /\ UNCHANGED <<credits, win, stops>>]_vars

\* A set_bet_size that succeeded on a Game holding a win from the spin before.
C4_Witness ==
    /\ status = "ready"
    /\ steps = 2
    /\ call.op = "set_bet_size"
    /\ ret.tag = "Ok"
    /\ bet.size = call.args[1]
    /\ Lt(Zero, win)

\* C5: a spin with credits < bet.size returns LowBalance, draws no reel and
\* leaves credits, bet, win and the symbols as they were.
C5_LowBalanceLeavesState ==
    [][(call'.op = "spin" /\ steps' = steps + 1 /\ Lt(credits, bet.size))
         => /\ ret'.tag = "Err"
            /\ ret'.val = "LowBalance"
            /\ status' = "ready"
            /\ draws' = <<>>
            /\ UNCHANGED <<credits, bet, win, stops>>]_vars

\* A spin that returned LowBalance on a Game with credits, but fewer than the
\* bet size.
C5_Witness ==
    /\ status = "ready"
    /\ call.op = "spin"
    /\ ret.tag = "Err"
    /\ Lt(Zero, credits)
    /\ Lt(credits, bet.size)

\* C6, as claimed: a spin with credits >= bet.size succeeds; the symbols are
\* the three drawn, win is payout(drawn) * bet.size and credits is
\* credits - bet.size + win, as numbers (no overflow, no wrap-around).
C6_SpinSettles ==
    [][(call'.op = "spin" /\ steps' = steps + 1 /\ Le(bet.size, credits))
         => /\ ret'.tag = "Ok"
            /\ status' = "ready"
            /\ Len(draws') = 3
            /\ stops' = Drawn(draws')
            /\ bet' = bet
            /\ ~Mul(FromNat(payout(stops').val), bet.size).over
            /\ win' = Mul(FromNat(payout(stops').val), bet.size).val
            /\ ~Add(Sub(credits, bet.size).val, win').over
            /\ credits' = Add(Sub(credits, bet.size).val, win').val]_vars

\* C7, as claimed: a spin subtracts bet.size only when credits >= bet.size,
\* and lowers credits by at most bet.size.
C7_SpinLowersByAtMostBet ==
    [][(call'.op = "spin" /\ steps' = steps + 1)
         => IF Lt(credits, bet.size)
            THEN credits' = credits
            ELSE Le(Sub(credits, bet.size).val, credits')]_vars

\* The rules of C8, first match first
C8_Rule(t) ==
    LET cherries == Cardinality({i \in {1, 2, 3} : t[i] = "Cherry"})
    IN  IF t = <<"Jackpot", "Jackpot", "Jackpot">> THEN 1666
        ELSE IF t = <<"Seven", "Seven", "Seven">> THEN 300
        ELSE IF t = <<"TripleBar", "TripleBar", "TripleBar">> THEN 100
        ELSE IF t = <<"DoubleBar", "DoubleBar", "DoubleBar">> THEN 50
        ELSE IF t = <<"Bar", "Bar", "Bar">> THEN 25
        ELSE IF t = <<"Cherry", "Cherry", "Cherry">>
                  \/ {t[1], t[2], t[3]} \subseteq {"Bar", "DoubleBar", "TripleBar"} THEN 12
        ELSE IF cherries = 2 THEN 6
        ELSE IF cherries = 1 THEN 3
        ELSE 0

\* C8: on every ordered triple of symbols payout returns the value of the
\* first matching rule of the table.
C8_PayoutTable ==
    (call.op = "payout" /\ Len(call.args[1]) = 3)
        => ret.tag = "Ok" /\ ret.val = C8_Rule(call.args[1])

\* payout applied to a mixed triple of the Bar family.
C8_Witness ==
    /\ call.op = "payout"
    /\ call.args[1] = <<"Bar", "DoubleBar", "TripleBar">>
    /\ ret.tag = "Ok"
    /\ ret.val = 12

\* The partition of C9
C9_Partition ==
    << [lo |-> 0, hi |-> 72, symbol |-> "Blank"],
       [lo |-> 73, hi |-> 77, symbol |-> "Cherry"],
       [lo |-> 78, hi |-> 93, symbol |-> "Bar"],
       [lo |-> 94, hi |-> 106, symbol |-> "DoubleBar"],
       [lo |-> 107, hi |-> 117, symbol |-> "TripleBar"],
       [lo |-> 118, hi |-> 125, symbol |-> "Seven"],
       [lo |-> 126, hi |-> 127, symbol |-> "Jackpot"] >>

\* C9: for n in 0..127 exactly one range of the partition holds n, and
\* from_number(n) succeeds with that range's symbol.
C9_FromNumberPartition ==
    (call.op = "from_number" /\ call.args[1] \in 0 .. 127)
        => /\ Cardinality({i \in 1 .. 7 : C9_Partition[i].lo <= call.args[1]
                                          /\ call.args[1] <= C9_Partition[i].hi}) = 1
           /\ \A i \in 1 .. 7 :
                (C9_Partition[i].lo <= call.args[1] /\ call.args[1] <= C9_Partition[i].hi)
                    => ret.tag = "Ok" /\ ret.val = C9_Partition[i].symbol

\* from_number applied to the last number of the Cherry range.
C9_Witness ==
    /\ call.op = "from_number"
    /\ call.args[1] = 77
    /\ ret.tag = "Ok"
    /\ ret.val = "Cherry"

C11_RandomNeverFails ==
    /\ call.op = "random" => ret.tag = "Ok" /\ ret.val \in Symbol
    /\ call.op \in {"new", "spin"} =>
         /\ ~(ret.tag = "Panic" /\ ret.val = "unwrap")
         /\ \A i \in 1 .. Len(draws) : draws[i].tag = "Ok" /\ draws[i].val \in Symbol

\* Symbol::random with the sampler at the last number of RANGE.
C11_Witness ==
    /\ call.op = "random"
    /\ call.args[1] = 127
    /\ ret.tag = "Ok"
    /\ ret.val = "Jackpot"

\* C12: payout on a sequence whose length is not 3 panics and returns no
\* multiplier, and no spin ends in that panic: a spin that got past its
\* draws holds exactly NUM_REELS symbols.
C12_PayoutLength ==
    /\ (call.op = "payout" /\ Len(call.args[1]) # 3) => ret.tag = "Panic"
    /\ call.op = "spin" =>
         /\ ~(ret.tag = "Panic" /\ ret.val = "length")
         /\ Len(draws) = NUM_REELS => Len(stops) = NUM_REELS

\* payout applied to four symbols, as in the test payout_vec_length_not_3.
C12_Witness ==
    /\ call.op = "payout"
    /\ call.args[1] = <<"Bar", "Blank", "Blank", "Bar">>
    /\ ret.tag = "Panic"

\* C13, as claimed: after Game::new(1000, Bet::new(1, 1, 100)) and one
\* successful spin, credits() == credits() + win(), whatever was drawn.
C13_DocExampleAssertion ==
    (call.op = "spin" /\ ret.tag = "Ok" /\ steps = 1)
        => ~Add(credits, win).over /\ credits = Add(credits, win).val

\* C14, as claimed: a call fails only with InvalidBet or LowBalance, and a
\* spin with credits >= bet.size completes: neither payout(drawn) * bet.size
\* nor credits - bet.size + win leaves the u32 range.
C14_NoOverflow ==
    [][steps' = steps + 1
         => /\ ret'.tag # "Ok" => ret'.val \in {"Invalid bet!", "LowBalance"}
            /\ (call'.op = "spin" /\ Le(bet.size, credits))
                 => /\ ret'.tag = "Ok"
                    /\ ~Mul(FromNat(payout(stops').val), bet.size).over
                    /\ ~Add(Sub(credits, bet.size).val,
                            Mul(FromNat(payout(stops').val), bet.size).val).over]_vars

\* C15, as claimed: credits, win and the symbols change only in a successful
\* spin; set_bet_size, set_bet, a spin that returns LowBalance and the
\* accessors leave them unchanged, and the accessors leave the whole Game
\* unchanged.
C15_ChangeOnlyInSuccessfulSpin ==
    [][steps' = steps + 1
         => /\ (credits' # credits \/ win' # win \/ stops' # stops)
                 => call'.op = "spin" /\ ret'.tag = "Ok"
            /\ call'.op \in {"set_bet_size", "set_bet"} => UNCHANGED <<credits, win, stops>>
            /\ (call'.op = "spin" /\ ret'.tag = "Err") => UNCHANGED <<credits, win, stops>>
            /\ call'.op \in Accessors
                 => /\ UNCHANGED <<credits, bet, win, stops>>
                    /\ ret' = Ok(Access(call'.op, Game))]_vars

\* C16: in every state in which a Game exists the stored symbols are a
\* sequence of exactly 3 symbols, each one of the seven variants.
C16_ThreeSymbols ==
    (status = "ready" \/ (status = "panicked" /\ call.op # "new")) =>
        /\ Len(stops) = 3
        /\ \A i \in 1 .. Len(stops) : stops[i] \in Symbol

\* A Game whose symbols come from its second spin.
C16_Witness ==
    /\ status = "ready"
    /\ steps = 2
    /\ call.op = "spin"
    /\ ret.tag = "Ok"
    /\ stops = <<"Cherry", "Blank", "Cherry">>

\* C17: after a spin that returned LowBalance the credits are below the bet
\* size; while they are and the bet size is not changed they stay below it
\* and every spin returns LowBalance; and they are no longer below it only
\* after a set_bet_size or set_bet that succeeded with a size <= credits.
C17_LowBalanceStable ==
    [][steps' = steps + 1
         => /\ (call'.op = "spin" /\ ret'.tag = "Err") => Lt(credits', bet'.size)
            /\ (Lt(credits, bet.size) /\ bet'.size = bet.size)
                 => /\ Lt(credits', bet'.size)
                    /\ call'.op = "spin" => ret'.tag = "Err" /\ ret'.val = "LowBalance"
            /\ (Lt(credits, bet.size) /\ ~Lt(credits', bet'.size))
                 => /\ call'.op \in {"set_bet_size", "set_bet"}
                    /\ ret'.tag = "Ok"
                    /\ Le(bet'.size, credits')
                    /\ credits' = credits]_vars

\* A second spin that returned LowBalance on a Game that never won and has
\* credits left.
C17_Witness ==
    /\ status = "ready"
    /\ steps = 2
    /\ call.op = "spin"
    /\ ret.tag = "Err"
    /\ ret.val = "LowBalance"
    /\ win = Zero
    /\ Lt(Zero, credits)
    /\ Lt(credits, bet.size)

\* The permutations of a triple
C18_Permutations(t) ==
    {<<t[p[1]], t[p[2]], t[p[3]]>> :
        p \in {q \in [{1, 2, 3} -> {1, 2, 3}] : {q[1], q[2], q[3]} = {1, 2, 3}}}

\* C18: payout returns the same multiplier on every permutation of a triple,
\* and the multiplier is one of 0, 3, 6, 12, 25, 50, 100, 300, 1666.
C18_PayoutOrderFree ==
    (call.op = "payout" /\ Len(call.args[1]) = 3)
        => /\ ret.tag = "Ok"
           /\ ret.val \in {0, 3, 6, 12, 25, 50, 100, 300, 1666}
           /\ \A u \in C18_Permutations(call.args[1]) : payout(u) = ret

\* payout applied to two Cherries around a Blank.
C18_Witness ==
    /\ call.op = "payout"
    /\ call.args[1] = <<"Cherry", "Blank", "Cherry">>
    /\ ret.tag = "Ok"
    /\ ret.val = 6

\* The bet-size ladder of the command-line program
C19_Ladder == <<FromNat(1), FromNat(2), FromNat(3), FromNat(5), FromNat(10)>>

\* The place of a size on the ladder
C19_Rung(size) == CHOOSE i \in 1 .. Len(C19_Ladder) : C19_Ladder[i] = size

\* C19: driven only through bet_plus and bet_minus from bet size 1, the bet
\* size stays in {1, 2, 3, 5, 10}; each successful command moves it exactly
\* one step along the ladder, up for bet_plus and down for bet_minus;
\* bet_plus at 10 and bet_minus at 1 return an error message and leave the
\* bet unchanged; and set_bet_size is never given a size outside [min, max],
\* so that no command panics.
C19_BetLadder ==
    [][/\ status' = "ready" => \E i \in 1 .. Len(C19_Ladder) : bet'.size = C19_Ladder[i]
       /\ steps' = steps + 1
            => /\ ret'.tag \in {"Ok", "Err"}
               /\ ret'.tag = "Ok"
                    => /\ ret'.val = bet'.size
                       /\ InRange(ret'.val, bet)
                       /\ bet' = [bet EXCEPT !.size = ret'.val]
                       /\ call'.op = "bet_plus" => C19_Rung(bet'.size) = C19_Rung(bet.size) + 1
                       /\ call'.op = "bet_minus" => C19_Rung(bet'.size) = C19_Rung(bet.size) - 1
               /\ ret'.tag = "Err"
                    => /\ bet' = bet
                       /\ \/ call'.op = "bet_plus" /\ bet.size = FromNat(10) /\ ret'.val = "Max bet size!"
                          \/ call'.op = "bet_minus" /\ bet.size = FromNat(1) /\ ret'.val = "Min bet size!"
               /\ (call'.op = "bet_plus" /\ bet.size = FromNat(10)) => ret'.tag = "Err"
               /\ (call'.op = "bet_minus" /\ bet.size = FromNat(1)) => ret'.tag = "Err"]_vars

\* The bet size brought from 10 down to 5 by bet_minus, the fifth command.
C19_Witness ==
    /\ status = "ready"
    /\ steps = 5
    /\ call.op = "bet_minus"
    /\ ret = Ok(FromNat(5))
    /\ bet.size = FromNat(5)


=============================================================================
